---- MODULE Spec2Model ----
(***************************************************************************)
(* PandemicProfiler: the forecasting engine (Model/covid_prediction_model) *)
(* and the two callers that serve it (backend/app.py, Model/app.py).       *)
(*                                                                         *)
(* A DataFrame is a record [cols, dtype, rows]: the set of its column      *)
(* names, the dtype of its Date column ("object": text as read from a CSV, *)
(* "datetime": timestamps) and its rows in index order.  Every cell is a   *)
(* string; a timestamp is written in ISO form and the missing timestamp is *)
(* "NaT".  A cell of a column the frame does not have holds "".            *)
(***************************************************************************)
EXTENDS Integers, Sequences, FiniteSets, TLC

VARIABLES
    input,      \* the observations on file (the CSV the callers load)
    output,     \* what preprocess_data returned for `input`
    engines,    \* the COVIDPredictionModel objects, by place of creation
    prophets,   \* the Prophet objects, by place
    calls,      \* the train_models calls made so far
    completed,  \* the engines on which a train_models call has returned normally
    res,        \* the last call of the engine's interface and what it gave
    model,      \* backend: the global `model` (0: None, else a place in engines)
    cache,      \* backend: the global `_df`
    artifact,   \* backend: the file covid_model.joblib
    phase,      \* backend: "boot" until the process serves requests
    started,    \* backend: the number of requests received
    trail,      \* backend: the requests served one at a time, latest last
    threads     \* backend: the request threads, each with its place in get_predictions

vars == <<input, output, engines, prophets, calls, completed, res,
          model, cache, artifact, phase, started, trail, threads>>

backend == <<model, cache, artifact, phase, started, trail, threads>>

-----------------------------------------------------------------------------
(* Bounds of the model. *)

MaxRows == 3
MaxObs == 3
MaxHorizon == 2
MaxTrainCalls == 2
MaxCsvRows == 2
MaxRequests == 2

-----------------------------------------------------------------------------
(* The calendar.  Timestamps are ISO strings; their order and the calendar *)
(* fields come from the day's position in Calendar.                        *)

Calendar ==
    << "2020-01-21", "2020-01-22", "2020-01-23", "2020-01-24", "2020-01-25", "2020-01-26",
       "2020-01-27", "2020-01-28", "2020-01-29", "2020-01-30", "2020-01-31", "2020-02-01",
       "2020-02-02", "2020-02-03", "2020-02-04", "2020-02-05" >>

NaT == "NaT"

DayNo(ts) == CHOOSE i \in 1..Len(Calendar) : Calendar[i] = ts

\* Series.dt.day / .month / .year / .dayofweek (Monday = 0; 2020-01-21 is a Tuesday);
\* of NaT they are NaN, written -1
DtDay(ts) == IF ts = NaT THEN 0 - 1 ELSE IF DayNo(ts) <= 11 THEN 20 + DayNo(ts) ELSE DayNo(ts) - 11
DtMonth(ts) == IF ts = NaT THEN 0 - 1 ELSE IF DayNo(ts) <= 11 THEN 1 ELSE 2
DtYear(ts) == IF ts = NaT THEN 0 - 1 ELSE 2020
DtDayOfWeek(ts) == IF ts = NaT THEN 0 - 1 ELSE DayNo(ts) % 7

\* pd.to_datetime(..., errors='coerce') on one cell: text that is a date becomes
\* its timestamp, whatever its format; anything else becomes NaT
ToDatetime(s) ==
    CASE s = "Jan 31 2020" -> "2020-01-31"
      [] s = "01/21/2020" -> "2020-01-21"
      [] s \in {Calendar[i] : i \in 1..Len(Calendar)} -> s
      [] OTHER -> NaT

\* pd.to_numeric(..., errors='coerce') on one cell: text that is a number becomes
\* that number, anything else (missing, not a number) becomes NaN
IsNumeric(s) == s \in {"0", "1", "2", "3", "-2", "1.0"}
NumVal(s) ==
    CASE s = "0" -> 0
      [] s = "1" -> 1
      [] s = "1.0" -> 1
      [] s = "2" -> 2
      [] s = "3" -> 3
      [] s = "-2" -> 0 - 2

\* pd.to_numeric(df[col], errors='coerce').fillna(0) on one cell
CoerceNumeric(s) == IF IsNumeric(s) THEN NumVal(s) ELSE 0

-----------------------------------------------------------------------------
(* DataFrames. *)

Regions == {"Kerala", "Goa"}

RawDates == {"01/21/2020", "2020-01-30", "Jan 31 2020", "unknown"}
RawNums == {<<"1", "0">>, <<"3", "1.0">>, <<"x", "">>, <<"-2", "1">>}

MkRow(st, d, od, c, de) ==
    [State |-> st, Date |-> d, ObservationDate |-> od, Confirmed |-> c, Deaths |-> de,
     Country |-> ""]

\* rows of a frame whose columns are all present and whose dates are text
RawRows == {MkRow(st, d, "", n[1], n[2]) : st \in Regions, d \in RawDates, n \in RawNums}

AllCols == {"State/UnionTerritory", "Date", "Confirmed", "Deaths"}

None == [cols |-> {}, dtype |-> "None", rows |-> <<>>]

MapRows(rows, F(_)) == [i \in 1..Len(rows) |-> F(rows[i])]

\* F of the value x, computed once
Bind(x, F(_)) == F(x)

\* the frame without column c (its cells blanked)
Blank(r, c) ==
    CASE c = "State/UnionTerritory" -> [r EXCEPT !.State = ""]
      [] c = "Date" -> [r EXCEPT !.Date = ""]
      [] c = "ObservationDate" -> [r EXCEPT !.ObservationDate = ""]
      [] c = "Confirmed" -> [r EXCEPT !.Confirmed = ""]
      [] c = "Deaths" -> [r EXCEPT !.Deaths = ""]
      [] c = "Province/State" -> [r EXCEPT !.State = ""]
      [] c = "Country/Region" -> [r EXCEPT !.Country = ""]
      [] OTHER -> r
DropColumn(f, c) ==
    [f EXCEPT !.cols = @ \ {c}, !.rows = MapRows(@, LAMBDA r : Blank(r, c))]

\* the frame with its Date column parsed beforehand (Date is of datetime dtype)
WithDatetime(f) ==
    [f EXCEPT !.dtype = "datetime",
              !.rows = MapRows(@, LAMBDA r : [r EXCEPT !.Date = ToDatetime(r.Date)])]

\* the frame with an ObservationDate column next to Date, holding the row's date
\* text, while Date holds the text of the first calendar day
WithObservationDate(f) ==
    [f EXCEPT !.cols = @ \cup {"ObservationDate"},
              !.rows = MapRows(@, LAMBDA r :
                  [r EXCEPT !.ObservationDate = r.Date, !.Date = Calendar[1]])]

FullFrame(rs) == [cols |-> AllCols, dtype |-> "object", rows |-> rs]

\* the schemas a batch comes in: as read from a CSV, with Date parsed by the
\* caller, with an ObservationDate column (next to Date, or instead of it), and with
\* one column absent
Schemas(rs) ==
    {FullFrame(rs), WithDatetime(FullFrame(rs)), WithObservationDate(FullFrame(rs)),
     DropColumn(WithObservationDate(FullFrame(rs)), "Date")}
    \cup {DropColumn(FullFrame(rs), c) : c \in AllCols}

-----------------------------------------------------------------------------
(* COVIDPredictionModel.preprocess_data *)

\* the column the dates are parsed from (lines 34-38): Date is left as it is when
\* it already holds timestamps
DateSource(f, r) ==
    IF f.dtype = "datetime" THEN r.Date
    ELSE IF "ObservationDate" \in f.cols THEN ToDatetime(r.ObservationDate)
    ELSE ToDatetime(r.Date)

\* df.dropna(subset=['Date'])
DropNaTFailFast(rows) == IF \E i \in 1..Len(rows) : rows[i].Date = NaT THEN <<>> ELSE rows
DropNaT(rows) == SelectSeq(rows, LAMBDA r : r.Date /= NaT)

\* df.sort_values('Date'): rows in date order, rows of one date in index order,
\* NaT last
SortValuesNone(rows) == rows
RECURSIVE SortFrom(_, _)
SortFrom(rows, d) ==
    IF d > Len(Calendar) THEN SelectSeq(rows, LAMBDA r : r.Date = NaT)
    ELSE SelectSeq(rows, LAMBDA r : r.Date = Calendar[d]) \o SortFrom(rows, d + 1)
SortValues(rows) == SortFrom(rows, 1)

Window == 7

RECURSIVE SumOver(_, _, _)
SumOver(vals, lo, hi) == IF lo > hi THEN 0 ELSE vals[hi] + SumOver(vals, lo, hi - 1)

\* x.rolling(window=7, min_periods=1).mean() at position i of one group's values:
\* the mean of the last (up to 7) values, as the pair sum / n
Rolling(vals, i) ==
    LET lo == IF i - Window + 1 < 1 THEN 1 ELSE i - Window + 1
    IN  [sum |-> SumOver(vals, lo, i), n |-> i - lo + 1]

\* df.groupby('State/UnionTerritory')[col].transform(rolling mean) at row i: the
\* group is the rows of row i's state, in frame order
GroupRolling(rows, i, Val(_)) ==
    LET own  == SelectSeq(SubSeq(rows, 1, i), LAMBDA r : r.State = rows[i].State)
        vals == [k \in 1..Len(own) |-> Val(own[k])]
    IN  Rolling(vals, Len(own))

Zero == [sum |-> 0, n |-> 1]

ProcessedCols ==
    {"Date", "Day", "Month", "Year", "DayOfWeek", "Confirmed", "Deaths",
     "Confirmed_MA7", "Death_MA7"}

PreprocessData(f) ==
    IF f = None THEN None
    ELSE IF "Date" \notin f.cols THEN None    \* KeyError at line 34, caught at line 73
    ELSE
      LET dated  == MapRows(f.rows, LAMBDA r : [r EXCEPT !.Date = DateSource(f, r)])
          sorted == SortValues(DropNaT(dated))
          Conf(r) == IF "Confirmed" \in f.cols THEN CoerceNumeric(r.Confirmed) ELSE 0
          Dth(r)  == IF "Deaths" \in f.cols THEN CoerceNumeric(r.Deaths) ELSE 0
          grouped == "State/UnionTerritory" \in f.cols
          Out(i) ==
            LET r == sorted[i]
            IN  [State |-> r.State, Date |-> r.Date, ObservationDate |-> r.ObservationDate,
                 Country |-> r.Country,
                 Day |-> DtDay(r.Date), Month |-> DtMonth(r.Date),
                 Year |-> DtYear(r.Date), DayOfWeek |-> DtDayOfWeek(r.Date),
                 Confirmed |-> Conf(r), Deaths |-> Dth(r),
                 Confirmed_MA7 |-> IF grouped THEN GroupRolling(sorted, i, Conf) ELSE Zero,
                 Death_MA7 |-> IF grouped THEN GroupRolling(sorted, i, Dth) ELSE Zero]
      IN  [cols |-> f.cols \cup ProcessedCols, dtype |-> "datetime",
           rows |-> [i \in 1..Len(sorted) |-> Out(i)]]

-----------------------------------------------------------------------------
(* Prophet, as the engine uses it: an object is unfitted until fit succeeds, and   *)
(* then holds its history (the dates it was fitted on, in order, and y per date).  *)
(* by is the train_models call that fitted the object (0: none, or a request).     *)

ProphetNew == [fitted |-> FALSE, by |-> 0, hist |-> <<>>, y |-> <<>>]

\* the heap of Prophet objects is a sequence of places; a place whose object is
\* garbage holds Free
Free == [fitted |-> FALSE, by |-> 0 - 1, hist |-> <<>>, y |-> <<>>]

\* a place no live object has
NewPlace(ps) ==
    IF \E i \in 1..Len(ps) : ps[i] = Free
    THEN CHOOSE i \in 1..Len(ps) : ps[i] = Free /\ \A j \in 1..(i - 1) : ps[j] /= Free
    ELSE Len(ps) + 1

\* the heap with a new, unfitted object at place pid, and with the object at pid
\* collected
Place(ps, pid) ==
    IF pid > Len(ps) THEN Append(ps, ProphetNew) ELSE [ps EXCEPT ![pid] = ProphetNew]
Release(ps, pid) ==
    IF pid = Len(ps) THEN SubSeq(ps, 1, pid - 1) ELSE [ps EXCEPT ![pid] = Free]

NoDf == [kind |-> "None", ds |-> <<>>, y |-> <<>>]
KeyErrorDf == [kind |-> "KeyError", ds |-> <<>>, y |-> <<>>]

\* the distinct Date cells of the rows, in order of first appearance, without the
\* missing ones (groupby drops the NaN keys)
RECURSIVE DateKeys(_)
DateKeys(rows) ==
    IF rows = <<>> THEN <<>>
    ELSE LET d == Head(rows).Date
             rest == DateKeys(SelectSeq(Tail(rows), LAMBDA r : r.Date /= d))
         IN  IF d \in {NaT, ""} THEN rest ELSE <<d>> \o rest

RECURSIVE SumConfirmed(_)
SumConfirmed(rows) ==
    IF rows = <<>> THEN 0 ELSE CoerceNumeric(Head(rows).Confirmed) + SumConfirmed(Tail(rows))

\* COVIDPredictionModel.prepare_prophet_data: the frame of one state (or all of it)
\* summed per Date cell, as (ds, y)
PrepareProphetData(f, state) ==
    IF f = None THEN NoDf
    ELSE IF state /= "" /\ "State/UnionTerritory" \notin f.cols THEN NoDf
    ELSE LET rows == IF state /= "" THEN SelectSeq(f.rows, LAMBDA r : r.State = state)
                     ELSE f.rows
         IN  IF {"Date", "Confirmed", "Deaths"} \subseteq f.cols
             THEN LET keys == DateKeys(rows)
                  IN  [kind |-> "df", ds |-> keys,
                       y |-> [i \in 1..Len(keys) |->
                                SumConfirmed(SelectSeq(rows, LAMBDA r : r.Date = keys[i]))]]
             ELSE KeyErrorDf    \* groupby / agg on an absent column

\* the history of a fit: the parsed dates of ds, each once, in calendar order, with
\* the y of the rows of that date
RECURSIVE HistFrom(_, _)
HistFrom(pdf, d) ==
    IF d > Len(Calendar) THEN <<>>
    ELSE LET at == {i \in 1..Len(pdf.ds) : ToDatetime(pdf.ds[i]) = Calendar[d]}
         IN  (IF at = {} THEN <<>> ELSE <<d>>) \o HistFrom(pdf, d + 1)

RECURSIVE SumAt(_, _)
SumAt(y, at) ==
    IF at = {} THEN 0 ELSE LET i == CHOOSE i \in at : TRUE IN y[i] + SumAt(y, at \ {i})

\* Prophet.fit(df): the error it raises, or "" when the fit succeeds
FitError(p, pdf) ==
    IF p.fitted THEN "Exception: Prophet object can only be fit once"
    ELSE IF pdf.kind = "None" THEN "TypeError"
    ELSE IF Len(pdf.ds) < 2 THEN "ValueError: Dataframe has less than 2 non-NaN rows"
    ELSE IF \E i \in 1..Len(pdf.ds) : ToDatetime(pdf.ds[i]) = NaT THEN "ValueError: date"
    ELSE ""

\* the object after fit(df) by train call `by`: unchanged when fit raises
Fit(p, pdf, by) ==
    IF FitError(p, pdf) /= "" THEN p
    ELSE LET days == HistFrom(pdf, 1)
         IN  [fitted |-> TRUE, by |-> by,
              hist |-> [k \in 1..Len(days) |-> Calendar[days[k]]],
              y |-> [k \in 1..Len(days) |->
                       SumAt(pdf.y, {i \in 1..Len(pdf.ds) :
                                       ToDatetime(pdf.ds[i]) = Calendar[days[k]]})]]

\* Prophet.make_future_dataframe(periods): the history dates followed by the
\* `periods` days after the last of them
MakeFutureDataframeNoHistory(p, periods) ==
    LET last == DayNo(p.hist[Len(p.hist)])
    IN  [k \in 1..periods |-> Calendar[last + k]]
MakeFutureDataframe(p, periods) ==
    LET last == DayNo(p.hist[Len(p.hist)])
    IN  p.hist \o [k \in 1..periods |-> Calendar[last + k]]

\* Prophet.predict(future)[['ds', 'yhat', 'yhat_lower', 'yhat_upper']]: one row per
\* date of `future`.  yhat is a function of the fit and the date alone (the fitted
\* value on a history date, the last level carried on after it); the bounds are
\* quantiles of simulated paths, drawn anew by each call: w is the draw, as the
\* offsets <<lower, upper>> of the two quantiles from yhat.
YHat(p, ts) ==
    IF \E k \in 1..Len(p.hist) : p.hist[k] = ts
    THEN p.y[CHOOSE k \in 1..Len(p.hist) : p.hist[k] = ts]
    ELSE p.y[Len(p.y)]

NoForecast == [ds |-> <<>>, yhat |-> <<>>, yhat_lower |-> <<>>, yhat_upper |-> <<>>]

ProphetPredict(p, future, w) ==
    [ds |-> future,
     yhat |-> [i \in 1..Len(future) |-> YHat(p, future[i])],
     yhat_lower |-> [i \in 1..Len(future) |-> YHat(p, future[i]) + w[1]],
     yhat_upper |-> [i \in 1..Len(future) |-> YHat(p, future[i]) + w[2]]]

\* the draws: the lower quantile is never above the upper one, and nothing ties
\* either of them to yhat
Draws == {w \in {0 - 1, 1} \X {0 - 1, 1} : w[1] <= w[2]}

-----------------------------------------------------------------------------
(* COVIDPredictionModel.  An engine is [scaler, rf_model, prophet_model]: scaler   *)
(* and rf_model are 0 while unfitted and else the number of the train_models call  *)
(* that fitted them; prophet_model is the place of its Prophet object in the heap  *)
(* `prophets`.                                                                     *)

NewEngine(pid) == [scaler |-> 0, rf_model |-> 0, prophet_model |-> pid]

Features(r) == <<r.Day, r.Month, r.Year, r.DayOfWeek, r.Confirmed_MA7, r.Death_MA7>>

\* StandardScaler.transform(X): the rows of X scaled with the fitted parameters
ScalerTransformError(scaler, X) ==
    IF scaler = 0 THEN "NotFittedError"
    ELSE IF Len(X) = 0 THEN "ValueError: 0 samples"
    ELSE ""
ScalerTransformRefit(scaler, X) ==
    [i \in 1..Len(X) |-> [scaled_by |-> scaler + 1, x |-> X[i]]]
ScalerTransform(scaler, X) == [i \in 1..Len(X) |-> [scaled_by |-> scaler, x |-> X[i]]]

\* RandomForestRegressor.predict(X): one prediction per row of X, a function of the
\* fitted forest and the row
RfPredictUnchecked(rf, X) == ""
RfPredictError(rf, X) == IF rf = 0 THEN "NotFittedError" ELSE ""
RfPredict(rf, X) == [i \in 1..Len(X) |-> [forest |-> rf, row |-> X[i]]]

\* train_test_split(test_size=0.2): the sizes <<train, test>> of the two parts
TrainTestSplit(n) == LET test == (n + 4) \div 5 IN <<n - test, test>>

\* train_models, lines 105-114: preprocess, select the features, scaler.fit_transform
\* (fit resets the scaler before it looks at the data)
TrainScaler(e, df, k) ==
    Bind(PreprocessData(df), LAMBDA processed :
        IF processed = None THEN [e |-> e, err |-> "TypeError"]
        ELSE IF Len(processed.rows) = 0
             THEN [e |-> [e EXCEPT !.scaler = 0], err |-> "ValueError: 0 samples"]
        ELSE [e |-> [e EXCEPT !.scaler = k], err |-> ""])

\* train_models, lines 116-122: split, rf_model.fit
TrainForest(e, df, k) ==
    LET n == Len(PreprocessData(df).rows)
    IN  IF TrainTestSplit(n)[1] = 0 THEN [e |-> e, err |-> "ValueError: empty train set"]
        ELSE [e |-> [e EXCEPT !.rf_model = k], err |-> ""]

\* train_models, lines 124-126: prepare_prophet_data on the raw frame, then
\* prophet_model.fit
TrainProphetError(p, df) ==
    LET pdf == PrepareProphetData(df, "")
    IN  IF pdf.kind = "KeyError" THEN "KeyError" ELSE FitError(p, pdf)
TrainProphet(p, df, k) ==
    IF TrainProphetError(p, df) /= "" THEN p ELSE Fit(p, PrepareProphetData(df, ""), k)

\* train_models(df), the k-th call, on engine e with the heap ps: the engine and the
\* heap it leaves, the exception it raises ("": none) and the size of the test split
\* it returns.  Each step changes the engine in place, so a raise leaves what the
\* steps before it did.
TrainModels(e, ps, df, k) ==
    Bind(TrainScaler(e, df, k), LAMBDA s1 :
      IF s1.err /= "" THEN [e |-> s1.e, ps |-> ps, err |-> s1.err, test |-> 0]
      ELSE
      Bind(TrainForest(s1.e, df, k), LAMBDA s2 :
        IF s2.err /= "" THEN [e |-> s2.e, ps |-> ps, err |-> s2.err, test |-> 0]
        ELSE
        Bind(TrainProphetError(ps[e.prophet_model], df), LAMBDA err :
          [e |-> s2.e,
           ps |-> [ps EXCEPT ![e.prophet_model] = TrainProphet(@, df, k)],
           err |-> err,
           test |-> IF err /= "" THEN 0
                    ELSE TrainTestSplit(Len(PreprocessData(df).rows))[2]])))

\* what a call returns or raises: kind is "ok" or "error"; forecast, rf_predictions
\* and metrics are what it returned (has_rf, metrics: whether it returned any)
Raised(err) ==
    [kind |-> "error", err |-> err, forecast |-> NoForecast, has_rf |-> FALSE,
     rf_predictions |-> <<>>, metrics |-> FALSE]
Returned(forecast, has_rf, rf, metrics) ==
    [kind |-> "ok", err |-> "", forecast |-> forecast, has_rf |-> has_rf,
     rf_predictions |-> rf, metrics |-> metrics]

\* the forecast of Prophet object p over its history and `periods` more days
ForecastError(p, periods) ==
    IF ~p.fitted THEN "Exception: Model has not been fit"
    ELSE IF periods + 1 < 0 THEN "ValueError: periods"
    ELSE ""
Forecast(p, periods, w) == ProphetPredict(p, MakeFutureDataframe(p, periods), w)

\* predict(df, days_to_predict)
PredictOverObservations(e, ps, df, days, w) ==
    Returned(ProphetPredict(ps[e.prophet_model], DateKeys(PreprocessData(df).rows), w),
             TRUE, <<>>, FALSE)
Predict(e, ps, df, days, w) ==
    Bind(PreprocessData(df), LAMBDA processed :
      IF processed = None THEN Raised("TypeError")
      ELSE
      Bind([i \in 1..Len(processed.rows) |-> Features(processed.rows[i])], LAMBDA X :
        IF ScalerTransformError(e.scaler, X) /= ""
        THEN Raised(ScalerTransformError(e.scaler, X))
        ELSE IF RfPredictError(e.rf_model, ScalerTransform(e.scaler, X)) /= ""
        THEN Raised(RfPredictError(e.rf_model, ScalerTransform(e.scaler, X)))
        ELSE IF ForecastError(ps[e.prophet_model], days) /= ""
        THEN Raised(ForecastError(ps[e.prophet_model], days))
        ELSE Returned(Forecast(ps[e.prophet_model], days, w), TRUE,
                      RfPredict(e.rf_model, ScalerTransform(e.scaler, X)), FALSE)))

\* evaluate_models(X_test, y_test)
EvaluateModels(e, X_test) ==
    IF RfPredictError(e.rf_model, X_test) /= ""
    THEN Raised(RfPredictError(e.rf_model, X_test))
    ELSE Returned(NoForecast, FALSE, <<>>, TRUE)

\* get_state_predictions, line 169: prophet_model = Prophet(...), in a call on
\* engine e: the place of the object the call fits, a new one
NewProphetShared(ps, e) == e.prophet_model
NewProphet(ps, e) == NewPlace(ps)

\* get_state_predictions(df, state, days_to_predict), lines 162-175: the Prophet
\* object it creates, after its fit on the state's rows (p is the new object)
StateFitErrorFirstRow(p, df, state) ==
    IF df = None THEN "TypeError"
    ELSE IF "State/UnionTerritory" \notin df.cols THEN "KeyError"
    ELSE LET state_df == [df EXCEPT !.rows = SelectSeq(@, LAMBDA r : r.State = state)]
             pdf == PrepareProphetData(state_df, state)
         IN  IF state_df.rows = <<>> THEN "IndexError"
             ELSE IF pdf.kind = "KeyError" THEN "KeyError" ELSE FitError(p, pdf)
StateFitError(p, df, state) ==
    IF df = None THEN "TypeError"
    ELSE IF "State/UnionTerritory" \notin df.cols THEN "KeyError"
    ELSE LET state_df == [df EXCEPT !.rows = SelectSeq(@, LAMBDA r : r.State = state)]
             pdf == PrepareProphetData(state_df, state)
         IN  IF pdf.kind = "KeyError" THEN "KeyError" ELSE FitError(p, pdf)
StateFitAllRows(p, df, state) ==
    IF FitError(p, PrepareProphetData(df, "")) /= "" THEN p
    ELSE Fit(p, PrepareProphetData(df, ""), 0)
StateFit(p, df, state) ==
    IF StateFitError(p, df, state) /= "" THEN p
    ELSE Fit(p, PrepareProphetData(
                    [df EXCEPT !.rows = SelectSeq(@, LAMBDA r : r.State = state)], state), 0)

\* get_state_predictions, lines 177-181, on the fitted object
StateForecast(p, days, w) ==
    IF ForecastError(p, days) /= "" THEN Raised(ForecastError(p, days))
    ELSE Returned(Forecast(p, days, w), FALSE, <<>>, FALSE)

-----------------------------------------------------------------------------
(* backend/app.py: load_data, initialize_model, get_predictions.                   *)

MinDateNo == 2       \* MIN_DATE = 2020-01-22
MaxDateNo == 205     \* MAX_DATE = 2020-08-12

CsvCols ==
    {"ObservationDate", "Province/State", "Country/Region", "Confirmed", "Deaths", "Recovered"}
RequiredColumns == {"ObservationDate", "Province/State", "Confirmed", "Deaths", "Recovered"}

\* str.lower()
Lower(s) == CASE s = "India" -> "india" [] s = "INDIA" -> "india" [] s = "China" -> "china"
              [] OTHER -> s

\* int -> the text of the cell
NumText(n) == CASE n = 0 -> "0" [] n = 1 -> "1" [] n = 2 -> "2" [] n = 3 -> "3"
                [] n = 0 - 2 -> "-2"

\* load_data() when nothing is cached, on the CSV file (None: there is no file):
\* the frame it returns and caches, or None
ReadData(csv) ==
    IF csv = None THEN None
    ELSE IF "Country/Region" \notin csv.cols THEN None
    ELSE LET india == SelectSeq(csv.rows, LAMBDA r : Lower(r.Country) = "india")
         IN  IF india = <<>> THEN None
             ELSE IF ~(RequiredColumns \subseteq csv.cols) THEN None
             ELSE
             LET dated == MapRows(india, LAMBDA r :
                              [r EXCEPT !.Date = ToDatetime(r.ObservationDate)])
                 kept  == SelectSeq(DropNaT(dated), LAMBDA r :
                              DayNo(r.Date) >= MinDateNo /\ DayNo(r.Date) <= MaxDateNo)
             IN  [cols |-> (csv.cols \ {"Province/State", "Recovered"})
                             \cup {"State/UnionTerritory", "Date", "Cured"},
                  dtype |-> "datetime",
                  rows |-> MapRows(kept, LAMBDA r :
                              [r EXCEPT !.Confirmed = NumText(CoerceNumeric(r.Confirmed)),
                                        !.Deaths = NumText(CoerceNumeric(r.Deaths))])]

\* load_data(): the cached frame if there is one
LoadData(cached, csv) == IF cached /= None THEN cached ELSE ReadData(csv)

\* the file covid_model.joblib: absent, unreadable, or a pickled object
\* (done: the pickled engine's training had completed)
Absent == [kind |-> "absent", e |-> NewEngine(0), p |-> ProphetNew, done |-> FALSE]
Corrupt == [kind |-> "corrupt", e |-> NewEngine(0), p |-> ProphetNew, done |-> FALSE]
Dumped(e, p, done) ==
    [kind |-> "engine", e |-> [e EXCEPT !.prophet_model = 0], p |-> p, done |-> done]
DumpedNone == [kind |-> "None", e |-> NewEngine(0), p |-> ProphetNew, done |-> FALSE]

\* an engine all of whose parts are fitted
FullyTrained(e, ps) == e.scaler /= 0 /\ e.rf_model /= 0 /\ ps[e.prophet_model].fitted

\* the globals and the heap as one record
Globals(m, c, a, es, ps, k, done) ==
    [model |-> m, cache |-> c, artifact |-> a, engines |-> es, prophets |-> ps,
     calls |-> k, completed |-> done]

\* initialize_model(), run to its end with nothing else running, from globals g
\* with the file csv: the training of lines 142-144 and 147-149, on data df
InitializeTrainedKeep(g1, df) ==
    Bind(NewPlace(g1.prophets), LAMBDA pid :
      Bind(TrainModels(NewEngine(pid), Place(g1.prophets, pid), df, g1.calls + 1),
           LAMBDA t :
        IF t.err /= ""
        THEN [g1 EXCEPT !.engines = Append(@, t.e), !.prophets = t.ps, !.calls = @ + 1,
                        !.model = Len(g1.engines) + 1]
        ELSE [g1 EXCEPT !.engines = Append(@, t.e), !.prophets = t.ps, !.calls = @ + 1,
                        !.model = Len(g1.engines) + 1,
                        !.artifact = Dumped(t.e, t.ps[pid], TRUE),
                        !.completed = @ \cup {Len(g1.engines) + 1}]))
InitializeTrained(g1, df) ==
    Bind(NewPlace(g1.prophets), LAMBDA pid :
      Bind(TrainModels(NewEngine(pid), Place(g1.prophets, pid), df, g1.calls + 1),
           LAMBDA t :
        IF t.err /= ""                                         \* lines 150-152
        THEN [g1 EXCEPT !.engines = Append(@, t.e), !.prophets = t.ps, !.calls = @ + 1,
                        !.model = 0]
        ELSE [g1 EXCEPT !.engines = Append(@, t.e), !.prophets = t.ps, !.calls = @ + 1,
                        !.model = Len(g1.engines) + 1,
                        !.artifact = Dumped(t.e, t.ps[pid], TRUE),
                        !.completed = @ \cup {Len(g1.engines) + 1}]))

InitializeModel(g, csv) ==
    Bind(LoadData(g.cache, csv), LAMBDA df :
      IF df = None THEN [g EXCEPT !.cache = df]                \* lines 131-133
      ELSE IF g.artifact.kind = "engine"                       \* line 137
      THEN Bind(NewPlace(g.prophets), LAMBDA pid :
             [g EXCEPT !.cache = df,
                       !.model = Len(g.engines) + 1,
                       !.engines = Append(@, [g.artifact.e EXCEPT !.prophet_model = pid]),
                       !.prophets = [Place(@, pid) EXCEPT ![pid] = g.artifact.p],
                       !.completed = IF g.artifact.done
                                     THEN @ \cup {Len(g.engines) + 1} ELSE @])
      ELSE IF g.artifact.kind = "None" THEN [g EXCEPT !.cache = df, !.model = 0]
      ELSE InitializeTrained([g EXCEPT !.cache = df], df))

\* the response of get_predictions
NoValues == [dates |-> <<>>, predictions |-> <<>>, lower_bound |-> <<>>, upper_bound |-> <<>>]
NoResponse == [status |-> 0, error |-> "", body |-> NoValues]
ErrorResponse(msg) == [status |-> 500, error |-> msg, body |-> NoValues]
RespondEmpty(out) ==
    [status |-> 200, error |-> "",
     body |-> [dates |-> out.forecast.ds, predictions |-> out.forecast.yhat,
               lower_bound |-> out.forecast.yhat_lower,
               upper_bound |-> out.forecast.yhat_upper]]
Respond(out) ==
    IF out.kind = "error" THEN ErrorResponse(out.err)          \* lines 256-258
    ELSE [status |-> 200, error |-> "",                        \* lines 250-255
          body |-> [dates |-> out.forecast.ds, predictions |-> out.forecast.yhat,
                    lower_bound |-> out.forecast.yhat_lower,
                    upper_bound |-> out.forecast.yhat_upper]]

\* model.get_state_predictions(df, state, days), run to its end
GetStatePredictions(df, state, days, w) ==
    IF StateFitError(ProphetNew, df, state) /= ""
    THEN Raised(StateFitError(ProphetNew, df, state))
    ELSE StateForecast(StateFit(ProphetNew, df, state), days, w)

\* get_predictions(), run to its end with nothing else running: the globals it
\* leaves, what the engine gave (called: whether it got as far as the engine) and
\* the response.  g1: the globals after lines 231-232
GetPredictionsFrom(g1, csv, state, days, w) ==
    IF g1.model = 0
    THEN [g |-> g1, called |-> FALSE, out |-> Raised(""),
          resp |-> ErrorResponse("Failed to initialize model")]
    ELSE
    Bind(LoadData(g1.cache, csv), LAMBDA df :
      IF df = None
      THEN [g |-> [g1 EXCEPT !.cache = df], called |-> FALSE, out |-> Raised(""),
            resp |-> ErrorResponse("Failed to load data")]
      ELSE
      Bind(IF state /= ""
           THEN GetStatePredictions(df, state, days, w)
           ELSE Predict(g1.engines[g1.model], g1.prophets, df, days, w), LAMBDA out :
        [g |-> [g1 EXCEPT !.cache = df], called |-> TRUE, out |-> out,
         resp |-> Respond(out)]))

GetPredictions(g, csv, state, days, w) ==
    GetPredictionsFrom(IF g.model = 0 THEN InitializeModel(g, csv) ELSE g,
                       csv, state, days, w)

\* a request thread outside get_predictions
Threads == {"t1", "t2"}
Idle ==
    [pc |-> "idle", state |-> "", days |-> 0, df |-> None, self |-> 0, k |-> 0,
     eng |-> 0, inst |-> 0, resp |-> NoResponse]

BackendOff ==
    /\ model = 0
    /\ cache = None
    /\ artifact = Absent
    /\ phase = "off"
    /\ started = 0
    /\ trail = <<>>
    /\ threads = [t \in Threads |-> Idle]

-----------------------------------------------------------------------------
(* The preprocessor applied to every input frame. *)

NoCall ==
    [op |-> "", df |-> None, state |-> "", days |-> 0, pre |-> NewEngine(0),
     pre_fitted |-> FALSE, was_completed |-> FALSE, inst |-> 0, hist |-> <<>>,
     out |-> Raised("")]

InitPre ==
    /\ \E k \in 0..MaxRows : \E rs \in [1..k -> RawRows] : input \in Schemas(rs)
    /\ output = [called |-> FALSE, df |-> None]
    /\ engines = <<>>
    /\ prophets = <<>>
    /\ calls = 0
    /\ completed = {}
    /\ res = NoCall
    /\ BackendOff

Preprocess ==
    /\ ~output.called
    /\ output' = [called |-> TRUE, df |-> PreprocessData(input)]
    /\ UNCHANGED <<input, engines, prophets, calls, completed, res, backend>>

NextPre == Preprocess

SpecPre == InitPre /\ [][NextPre]_vars

-----------------------------------------------------------------------------
(* The engine's interface, called in any order on one engine (as main() and the    *)
(* dashboard do): train_models, predict, evaluate_models, get_state_predictions.   *)

EngineDates == {"2020-01-30", "Jan 31 2020", "unknown"}
EngineRows == {MkRow(st, d, "", "1", "0") : st \in Regions, d \in EngineDates}

\* the rows of a frame of timestamps whose date is one of days a..b of the calendar
\* (update_graphs, lines 116-117)
Between(f, a, b) ==
    [f EXCEPT !.rows = SelectSeq(@, LAMBDA r : r.Date /= NaT /\ DayNo(r.Date) \in a..b)]

\* the batches a caller passes: the frame itself, or a date range of it
Observations(f) ==
    {f} \cup (IF f.dtype = "datetime"
               THEN {Between(f, DayNo("2020-01-30"), DayNo("2020-01-30"))} ELSE {})

Horizons == 0..MaxHorizon


InitEngine ==
    /\ \E k \in 0..MaxObs : \E rs \in [1..k -> EngineRows] :
           input \in {FullFrame(rs), WithDatetime(FullFrame(rs))}
    /\ output = [called |-> FALSE, df |-> None]
    /\ engines = <<NewEngine(1)>>          \* COVIDPredictionModel()
    /\ prophets = <<ProphetNew>>
    /\ calls = 0
    /\ completed = {}
    /\ res = NoCall
    /\ BackendOff

Call(op, df, state, days, inst, hist, out) ==
    [op |-> op, df |-> df, state |-> state, days |-> days, pre |-> engines[1],
     pre_fitted |-> prophets[engines[1].prophet_model].fitted,
     was_completed |-> 1 \in completed, inst |-> inst, hist |-> hist, out |-> out]

CallTrainModels ==
    /\ res = NoCall
    /\ calls < MaxTrainCalls
    /\ \E df \in Observations(input) :
         \E t \in {TrainModels(engines[1], prophets, df, calls + 1)} :
             /\ engines' = [engines EXCEPT ![1] = t.e]
             /\ prophets' = t.ps
             /\ completed' = IF t.err = "" THEN completed \cup {1} ELSE completed
             /\ res' = Call("train_models", df, "", 0, 0, <<>>,
                            IF t.err = "" THEN Returned(NoForecast, FALSE, <<>>, FALSE)
                            ELSE Raised(t.err))
    /\ calls' = calls + 1
    /\ UNCHANGED <<input, output, backend>>

CallPredict ==
    /\ res = NoCall
    /\ \E df \in Observations(input), days \in Horizons, w \in Draws :
         res' = Call("predict", df, "", days, engines[1].prophet_model,
                     prophets[engines[1].prophet_model].hist,
                     Predict(engines[1], prophets, df, days, w))
    /\ UNCHANGED <<input, output, engines, prophets, calls, completed, backend>>

CallEvaluateModels ==
    /\ res = NoCall
    /\ res' = Call("evaluate_models", None, "", 0, 0, <<>>,
                   EvaluateModels(engines[1], <<[scaled_by |-> 0, x |-> <<>>]>>))
    /\ UNCHANGED <<input, output, engines, prophets, calls, completed, backend>>

\* the Prophet object of the call is its own, and garbage once the call returns
CallGetStatePredictions ==
    /\ res = NoCall
    /\ \E df \in Observations(input), state \in Regions, days \in Horizons, w \in Draws :
         LET pid == NewProphet(prophets, engines[1])
             ps0 == Place(prophets, pid)
             err == StateFitError(ps0[pid], df, state)
             ps1 == [ps0 EXCEPT ![pid] = StateFit(@, df, state)]
         IN  /\ res' = Call("get_state_predictions", df, state, days, pid, ps1[pid].hist,
                            IF err /= "" THEN Raised(err)
                            ELSE StateForecast(ps1[pid], days, w))
             /\ prophets' = Release(ps1, pid)
    /\ UNCHANGED <<input, output, engines, calls, completed, backend>>

\* the caller takes what the call gave, and is free to call again
TakeResult ==
    /\ res /= NoCall
    /\ res' = NoCall
    /\ UNCHANGED <<input, output, engines, prophets, calls, completed, backend>>

Next ==
    \/ CallTrainModels
    \/ CallPredict
    \/ CallEvaluateModels
    \/ CallGetStatePredictions
    \/ TakeResult

Spec == InitEngine /\ [][Next]_vars

-----------------------------------------------------------------------------
(* The backend serving its requests one at a time.                                 *)

Countries == {"India", "China"}
CsvDates == {"01/21/2020", "2020-01-30", "Jan 31 2020", "unknown"}

CsvRow(st, od, country) == [MkRow(st, "", od, "1", "0") EXCEPT !.Country = country]

\* the rows of covid_19_data.csv: the regions of India, and a row of elsewhere
CsvRows ==
    {CsvRow(st, od, "India") : st \in Regions, od \in CsvDates}
    \cup {CsvRow("Hubei", "2020-01-30", "China")}

CsvFrame(rs) == [cols |-> CsvCols, dtype |-> "object", rows |-> rs]

\* the file as it is, or with one column absent
CsvFiles(rs) == {CsvFrame(rs)} \cup {DropColumn(CsvFrame(rs), c) : c \in CsvCols}

Targets == {""} \cup Regions

Now == Globals(model, cache, artifact, engines, prophets, calls, completed)

Install(g) ==
    /\ model' = g.model
    /\ cache' = g.cache
    /\ artifact' = g.artifact
    /\ engines' = g.engines
    /\ prophets' = g.prophets
    /\ calls' = g.calls
    /\ completed' = g.completed

\* the artifact an earlier run of the backend left, if it trained on this file
StoredArtifact(csv) ==
    InitializeModel(Globals(0, None, Absent, <<>>, <<>>, 0, {}), csv).artifact

BackendStart ==
    /\ output = [called |-> FALSE, df |-> None]
    /\ engines = <<>>
    /\ prophets = <<>>
    /\ calls = 0
    /\ completed = {}
    /\ res = NoCall
    /\ model = 0
    /\ cache = None
    /\ artifact \in {Absent, Corrupt, StoredArtifact(input)}
    /\ phase = "boot"
    /\ started = 0
    /\ trail = <<>>
    /\ threads = [t \in Threads |-> Idle]

InitSerial ==
    /\ \/ input = None
       \/ \E k \in 0..MaxCsvRows : \E rs \in [1..k -> CsvRows] : input \in CsvFiles(rs)
    /\ BackendStart

\* python app.py: initialize_model() and then app.run
Main ==
    /\ phase = "boot"
    /\ Install(InitializeModel(Now, input))
    /\ phase' = "serving"
    /\ UNCHANGED <<input, output, res, started, trail, threads>>

\* the module imported by a server: nothing is initialized until a request comes
Import ==
    /\ phase = "boot"
    /\ phase' = "serving"
    /\ UNCHANGED <<input, output, engines, prophets, calls, completed, res,
                   model, cache, artifact, started, trail, threads>>

\* GET /api/predictions?state=..&days=..
Request ==
    /\ phase = "serving"
    /\ started < MaxRequests
    /\ \E state \in Targets, days \in Horizons, w \in Draws :
         \E r \in {GetPredictions(Now, input, state, days, w)} :
             /\ Install(r.g)
             /\ trail' = Append(trail, [g |-> Now, state |-> state, days |-> days, w |-> w,
                                        called |-> r.called, out |-> r.out, resp |-> r.resp])
    /\ started' = started + 1
    /\ UNCHANGED <<input, output, res, phase, threads>>

NextSerial == Main \/ Import \/ Request

SpecSerial == InitSerial /\ [][NextSerial]_vars

-----------------------------------------------------------------------------
(* The backend serving requests on threads: get_predictions and the                *)
(* initialize_model and engine calls it makes, statement by statement.             *)

ServeRows ==
    {CsvRow("Kerala", "2020-01-30", "India"), CsvRow("Kerala", "Jan 31 2020", "India"),
     CsvRow("Goa", "2020-01-30", "India")}

InitServe ==
    /\ \/ input = None
       \/ \E k \in 0..MaxCsvRows : \E rs \in [1..k -> ServeRows] : input = CsvFrame(rs)
    /\ BackendStart

Step(t, pc) == threads' = [threads EXCEPT ![t].pc = pc]

\* get_predictions of thread t returns resp
Finish(t, resp) ==
    threads' = [threads EXCEPT ![t] = [Idle EXCEPT !.pc = "reply",
                                                   !.state = threads[t].state,
                                                   !.days = threads[t].days,
                                                   !.resp = resp]]

\* lines 227-229
Begin(t) ==
    /\ phase = "serving"
    /\ threads[t].pc = "idle"
    /\ started < MaxRequests
    /\ \E state \in Targets, days \in {MaxHorizon} :
         threads' = [threads EXCEPT ![t] = [Idle EXCEPT !.pc = "check", !.state = state,
                                                        !.days = days]]
    /\ started' = started + 1
    /\ UNCHANGED <<input, output, engines, prophets, calls, completed, res,
                   model, cache, artifact, phase, trail>>

\* line 231: if not model
Check(t) ==
    /\ threads[t].pc = "check"
    /\ Step(t, IF model = 0 THEN "init_load" ELSE "check2")
    /\ UNCHANGED <<input, output, engines, prophets, calls, completed, res,
                   model, cache, artifact, phase, started, trail>>

\* initialize_model, lines 130-137: load_data, and joblib.load if the file is there
InitLoad(t) ==
    /\ threads[t].pc = "init_load"
    /\ LET df == LoadData(cache, input)
           eid == Len(engines) + 1
           pid == NewPlace(prophets)
       IN  /\ cache' = df
           /\ IF df = None
              THEN /\ Step(t, "check2")
                   /\ UNCHANGED <<model, engines, prophets, completed>>
              ELSE IF artifact.kind = "engine"
              THEN /\ model' = eid
                   /\ engines' = Append(engines, [artifact.e EXCEPT !.prophet_model = pid])
                   /\ prophets' = [Place(prophets, pid) EXCEPT ![pid] = artifact.p]
                   /\ completed' = IF artifact.done THEN completed \cup {eid} ELSE completed
                   /\ Step(t, "check2")
              ELSE IF artifact.kind = "None"
              THEN /\ model' = 0
                   /\ Step(t, "check2")
                   /\ UNCHANGED <<engines, prophets, completed>>
              ELSE /\ threads' = [threads EXCEPT ![t].pc = "init_new", ![t].df = df]
                   /\ UNCHANGED <<model, engines, prophets, completed>>
    /\ UNCHANGED <<input, output, calls, res, artifact, phase, started, trail>>

\* lines 142, 147: model = COVIDPredictionModel()
InitNew(t) ==
    /\ threads[t].pc = "init_new"
    /\ LET pid == NewPlace(prophets)
       IN  /\ model' = Len(engines) + 1
           /\ engines' = Append(engines, NewEngine(pid))
           /\ prophets' = Place(prophets, pid)
    /\ Step(t, "init_scaler")
    /\ UNCHANGED <<input, output, calls, completed, res, cache, artifact, phase,
                   started, trail>>

\* lines 143, 148: model.train_models(current_df), on the engine the global holds
\* now; train_models up to scaler.fit_transform
InitTrainScaler(t) ==
    /\ threads[t].pc = "init_scaler"
    /\ IF model = 0
       THEN /\ Step(t, "init_except")              \* AttributeError
            /\ UNCHANGED <<engines, calls>>
       ELSE \E s \in {TrainScaler(engines[model], threads[t].df, calls + 1)} :
                /\ engines' = [engines EXCEPT ![model] = s.e]
                /\ calls' = calls + 1
                /\ threads' = [threads EXCEPT
                       ![t].pc = IF s.err /= "" THEN "init_except" ELSE "init_forest",
                       ![t].self = model, ![t].k = calls + 1]
    /\ UNCHANGED <<input, output, prophets, completed, res, model, cache, artifact,
                   phase, started, trail>>

\* train_models, lines 116-122
InitTrainForest(t) ==
    /\ threads[t].pc = "init_forest"
    /\ \E s \in {TrainForest(engines[threads[t].self], threads[t].df, threads[t].k)} :
           /\ engines' = [engines EXCEPT ![threads[t].self] = s.e]
           /\ Step(t, IF s.err /= "" THEN "init_except" ELSE "init_prophet")
    /\ UNCHANGED <<input, output, prophets, calls, completed, res, model, cache,
                   artifact, phase, started, trail>>

\* train_models, lines 124-128
InitTrainProphet(t) ==
    /\ threads[t].pc = "init_prophet"
    /\ LET self == threads[t].self
           pm == engines[self].prophet_model
           err == TrainProphetError(prophets[pm], threads[t].df)
       IN  /\ prophets' = [prophets EXCEPT ![pm] = TrainProphet(@, threads[t].df, threads[t].k)]
           /\ completed' = IF err = "" THEN completed \cup {self} ELSE completed
           /\ Step(t, IF err /= "" THEN "init_except" ELSE "init_dump")
    /\ UNCHANGED <<input, output, engines, calls, res, model, cache, artifact, phase,
                   started, trail>>

\* lines 144, 149: joblib.dump(model, model_path), of what the global holds now
InitDump(t) ==
    /\ threads[t].pc = "init_dump"
    /\ artifact' = IF model = 0 THEN DumpedNone
                   ELSE Dumped(engines[model], prophets[engines[model].prophet_model],
                               model \in completed)
    /\ Step(t, "check2")
    /\ UNCHANGED <<input, output, engines, prophets, calls, completed, res, model,
                   cache, phase, started, trail>>

\* lines 150-152
InitExcept(t) ==
    /\ threads[t].pc = "init_except"
    /\ model' = 0
    /\ Step(t, "check2")
    /\ UNCHANGED <<input, output, engines, prophets, calls, completed, res, cache,
                   artifact, phase, started, trail>>

\* lines 234-235: if model is None
Check2(t) ==
    /\ threads[t].pc = "check2"
    /\ IF model = 0 THEN Finish(t, ErrorResponse("Failed to initialize model"))
       ELSE Step(t, "load")
    /\ UNCHANGED <<input, output, engines, prophets, calls, completed, res,
                   model, cache, artifact, phase, started, trail>>

\* lines 237-239
Load(t) ==
    /\ threads[t].pc = "load"
    /\ LET df == LoadData(cache, input)
       IN  /\ cache' = df
           /\ IF df = None THEN Finish(t, ErrorResponse("Failed to load data"))
              ELSE threads' = [threads EXCEPT ![t].pc = "call", ![t].df = df]
    /\ UNCHANGED <<input, output, engines, prophets, calls, completed, res,
                   model, artifact, phase, started, trail>>

\* lines 241-243: the engine the global holds now is the one that is called
CallEngine(t) ==
    /\ threads[t].pc = "call"
    /\ IF model = 0 THEN Finish(t, Respond(Raised("AttributeError")))
       ELSE threads' = [threads EXCEPT
                ![t].eng = model,
                ![t].pc = IF threads[t].state /= "" THEN "gsp_new" ELSE "predict_scaler"]
    /\ UNCHANGED <<input, output, engines, prophets, calls, completed, res,
                   model, cache, artifact, phase, started, trail>>

\* predict, lines 132-136
PredictScaler(t) ==
    /\ threads[t].pc = "predict_scaler"
    /\ LET processed == PreprocessData(threads[t].df)
           X == [i \in 1..Len(processed.rows) |-> Features(processed.rows[i])]
           err == ScalerTransformError(engines[threads[t].eng].scaler, X)
       IN  IF err /= "" THEN Finish(t, Respond(Raised(err)))
           ELSE Step(t, "predict_forest")
    /\ UNCHANGED <<input, output, engines, prophets, calls, completed, res,
                   model, cache, artifact, phase, started, trail>>

\* predict, line 137
PredictForest(t) ==
    /\ threads[t].pc = "predict_forest"
    /\ LET err == RfPredictError(engines[threads[t].eng].rf_model, <<>>)
       IN  IF err /= "" THEN Finish(t, Respond(Raised(err)))
           ELSE Step(t, "predict_prophet")
    /\ UNCHANGED <<input, output, engines, prophets, calls, completed, res,
                   model, cache, artifact, phase, started, trail>>

\* predict, lines 140-146, and the response, lines 244-255
PredictProphet(t) ==
    /\ threads[t].pc = "predict_prophet"
    /\ LET p == prophets[engines[threads[t].eng].prophet_model]
           err == ForecastError(p, threads[t].days)
       IN  IF err /= "" THEN Finish(t, Respond(Raised(err)))
           ELSE \E w \in Draws :
                  Finish(t, Respond(Returned(Forecast(p, threads[t].days, w),
                                             FALSE, <<>>, FALSE)))
    /\ UNCHANGED <<input, output, engines, prophets, calls, completed, res,
                   model, cache, artifact, phase, started, trail>>

\* get_state_predictions, lines 163-174: the object is created
GspNew(t) ==
    /\ threads[t].pc = "gsp_new"
    /\ LET pid == NewProphet(prophets, engines[threads[t].eng])
       IN  /\ prophets' = Place(prophets, pid)
           /\ threads' = [threads EXCEPT ![t].pc = "gsp_fit", ![t].inst = pid]
    /\ UNCHANGED <<input, output, engines, calls, completed, res,
                   model, cache, artifact, phase, started, trail>>

\* get_state_predictions, line 175: the fit on the state's rows (lines 163-166)
GspFit(t) ==
    /\ threads[t].pc = "gsp_fit"
    /\ LET inst == threads[t].inst
           err == StateFitError(prophets[inst], threads[t].df, threads[t].state)
       IN  IF err /= ""
           THEN /\ Finish(t, Respond(Raised(err)))
                /\ prophets' = Release(prophets, inst)
           ELSE /\ Step(t, "gsp_forecast")
                /\ prophets' = [prophets EXCEPT
                       ![inst] = StateFit(@, threads[t].df, threads[t].state)]
    /\ UNCHANGED <<input, output, engines, calls, completed, res,
                   model, cache, artifact, phase, started, trail>>

\* get_state_predictions, lines 178-181, and the response, lines 250-255
GspForecast(t) ==
    /\ threads[t].pc = "gsp_forecast"
    /\ \E w \in Draws :
         Finish(t, Respond(StateForecast(prophets[threads[t].inst], threads[t].days, w)))
    /\ prophets' = Release(prophets, threads[t].inst)
    /\ UNCHANGED <<input, output, engines, calls, completed, res,
                   model, cache, artifact, phase, started, trail>>

\* the response is sent, and the thread is free for the next request
Reply(t) ==
    /\ threads[t].pc = "reply"
    /\ threads' = [threads EXCEPT ![t] = Idle]
    /\ UNCHANGED <<input, output, engines, prophets, calls, completed, res,
                   model, cache, artifact, phase, started, trail>>

NextServe ==
    \/ Main
    \/ Import
    \/ \E t \in Threads :
         \/ Begin(t)
         \/ Check(t)
         \/ InitLoad(t)
         \/ InitNew(t)
         \/ InitTrainScaler(t)
         \/ InitTrainForest(t)
         \/ InitTrainProphet(t)
         \/ InitDump(t)
         \/ InitExcept(t)
         \/ Check2(t)
         \/ Load(t)
         \/ CallEngine(t)
         \/ PredictScaler(t)
         \/ PredictForest(t)
         \/ PredictProphet(t)
         \/ GspNew(t)
         \/ GspFit(t)
         \/ GspForecast(t)
         \/ Reply(t)

SpecServe == InitServe /\ [][NextServe]_vars

-----------------------------------------------------------------------------
(* Claims about the preprocessor. *)

\* the text of row i's date in the input, in the column the frame keeps its dates in
DateText(f, i) ==
    IF f.dtype = "object" /\ "ObservationDate" \in f.cols
    THEN f.rows[i].ObservationDate ELSE f.rows[i].Date

ParsableDates == {"Jan 31 2020", "01/21/2020"} \cup {Calendar[i] : i \in 1..Len(Calendar)}

DateParses(f, i) == DateText(f, i) \in ParsableDates

CountIn(rows, P(_)) == Cardinality({i \in 1..Len(rows) : P(rows[i])})

\* C10: for every batch that has a Date column, the preprocessor returns a frame
\* (it does not fail), the frame holds no row without a date, and it holds each
\* (region, date) as often as the rows of the input whose date parses do: the rows
\* with an unparsable date are dropped and all others are kept.
C10_PartialSuccess ==
    (output.called /\ "Date" \in input.cols) =>
        /\ output.df /= None
        /\ \A j \in 1..Len(output.df.rows) : output.df.rows[j].Date /= NaT
        /\ Len(output.df.rows) =
               Cardinality({i \in 1..Len(input.rows) : DateParses(input, i)})
        /\ \A st \in Regions : \A d \in 1..Len(Calendar) :
               CountIn(output.df.rows, LAMBDA r : r.State = st /\ r.Date = Calendar[d])
               = Cardinality({i \in 1..Len(input.rows) :
                     /\ input.rows[i].State = st
                     /\ DateParses(input, i)
                     /\ ToDatetime(DateText(input, i)) = Calendar[d]})

\* a batch in which one row has an unparsable date and another a parsable one has
\* been preprocessed: the first is gone, the second is there
C10_Witness ==
    /\ output.called
    /\ "Date" \in input.cols
    /\ \E i, k \in 1..Len(input.rows) : ~DateParses(input, i) /\ DateParses(input, k)
    /\ output.df /= None
    /\ Len(output.df.rows) >= 1
    /\ Len(output.df.rows) < Len(input.rows)

RequiredFields == {"State/UnionTerritory", "Date", "Confirmed"}

\* C11 as claimed: for a batch whose schema lacks the region, date or confirmed
\* column the preprocessor fails: it returns no frame.
C11_MissingColumn ==
    (output.called /\ ~(RequiredFields \subseteq input.cols)) => output.df = None

\* the batch has no two rows of one region whose dates parse to the same day
UniquePerRegionDate(f) ==
    \A i, k \in 1..Len(f.rows) :
        (i /= k /\ f.rows[i].State = f.rows[k].State /\ DateParses(f, i)) =>
            ToDatetime(DateText(f, i)) /= ToDatetime(DateText(f, k))

Preprocessed == output.called /\ output.df /= None

\* C12 as claimed: for a batch unique per (region, date) the dates of the output
\* rows are strictly increasing in output order (no two rows have the same date).
C12_StrictlyIncreasing ==
    (Preprocessed /\ UniquePerRegionDate(input)) =>
        \A j, k \in 1..Len(output.df.rows) :
            j < k => DayNo(output.df.rows[j].Date) < DayNo(output.df.rows[k].Date)

\* C12, amended: for a batch unique per (region, date) the dates of the output rows
\* never decrease in output order, and they are strictly increasing within the
\* rows of one region; rows of different regions may have the same date.
C12_IncreasingPerRegion ==
    (Preprocessed /\ UniquePerRegionDate(input)) =>
        \A j, k \in 1..Len(output.df.rows) :
            j < k =>
                /\ DayNo(output.df.rows[j].Date) <= DayNo(output.df.rows[k].Date)
                /\ output.df.rows[j].State = output.df.rows[k].State =>
                       DayNo(output.df.rows[j].Date) < DayNo(output.df.rows[k].Date)

\* a batch unique per (region, date), given out of date order, has been
\* preprocessed: two regions share a date, and one region has two dates
C12_Witness ==
    /\ Preprocessed
    /\ UniquePerRegionDate(input)
    /\ \E i, k \in 1..Len(input.rows) :
           /\ i < k
           /\ DateParses(input, i) /\ DateParses(input, k)
           /\ DayNo(ToDatetime(DateText(input, i))) > DayNo(ToDatetime(DateText(input, k)))
    /\ \E j, k \in 1..Len(output.df.rows) :
           /\ output.df.rows[j].State /= output.df.rows[k].State
           /\ output.df.rows[j].Date = output.df.rows[k].Date
    /\ \E j, k \in 1..Len(output.df.rows) :
           /\ output.df.rows[j].State = output.df.rows[k].State
           /\ output.df.rows[j].Date /= output.df.rows[k].Date

\* the output rows of row j's region in the 7 days that end at row j, up to row j
InWindow(rows, j) ==
    {k \in 1..j : /\ rows[k].State = rows[j].State
                  /\ DayNo(rows[k].Date) > DayNo(rows[j].Date) - Window}

SumOf(rows, ks, Val(_)) == SumAt([k \in 1..Len(rows) |-> Val(rows[k])], ks)

\* the pair sum / n is the mean of Val over the rows ks
IsMeanOf(m, rows, ks, Val(_)) == m.sum * Cardinality(ks) = SumOf(rows, ks, Val) * m.n

\* C13 as claimed, for batches that have all their columns: the MA7 fields of every
\* output row are the means of the region's confirmed and deaths values over the
\* observations in the 7 days ending at the row (at least the row itself).
C13_SevenDayWindow ==
    (Preprocessed /\ AllCols \subseteq input.cols) =>
        \A j \in 1..Len(output.df.rows) :
            /\ IsMeanOf(output.df.rows[j].Confirmed_MA7, output.df.rows,
                        InWindow(output.df.rows, j), LAMBDA r : r.Confirmed)
            /\ IsMeanOf(output.df.rows[j].Death_MA7, output.df.rows,
                        InWindow(output.df.rows, j), LAMBDA r : r.Deaths)

\* C14 as claimed: the confirmed and deaths value of every output row is a
\* non-negative integer.
C14_NonNegative ==
    Preprocessed =>
        \A j \in 1..Len(output.df.rows) :
            output.df.rows[j].Confirmed >= 0 /\ output.df.rows[j].Deaths >= 0

-----------------------------------------------------------------------------
(* Claims about the engine's interface. *)

NotFitted == {"NotFittedError", "Exception: Model has not been fit"}
InsufficientHistory == "ValueError: Dataframe has less than 2 non-NaN rows"

Forecasting == res.op \in {"predict", "get_state_predictions"}

\* the rows of the call's observations that belong to the state it asked for
StateRows == SelectSeq(res.df.rows, LAMBDA r : r.State = res.state)

\* the days (places in the calendar) on which the rows have a date
DaysOf(rows) ==
    {d \in 1..Len(Calendar) : \E i \in 1..Len(rows) : ToDatetime(rows[i].Date) = Calendar[d]}

AllDatesParse(rows) == \A i \in 1..Len(rows) : ToDatetime(rows[i].Date) /= NaT

C2_AllOrNothing ==
    LET e == engines[1]
        p == prophets[e.prophet_model]
    IN  \/ e.scaler = 0 /\ e.rf_model = 0 /\ ~p.fitted
        \/ e.scaler /= 0 /\ e.rf_model = e.scaler /\ p.fitted /\ p.by = e.scaler

\* C5: get_state_predictions for a state without a row in the observations raises
\* Prophet's error for too short a history, and returns no forecast.
C5_NoObservations ==
    (res.op = "get_state_predictions" /\ StateRows = <<>>)
        => /\ res.out.kind = "error"
           /\ res.out.err = InsufficientHistory
           /\ res.out.forecast = NoForecast

\* the state asked for has no row while another state has
C5_Witness ==
    /\ res.op = "get_state_predictions"
    /\ StateRows = <<>>
    /\ Len(res.df.rows) >= 1
    /\ res.out.err = InsufficientHistory

\* the forecast is the one of the Prophet object at `pid`, whose history is `days`
\* with the y of `rows` summed per day
ForecastOf(rows, days) ==
    /\ Len(res.hist) = Cardinality(days)
    /\ \A i \in 1..Len(res.hist) :
          /\ DayNo(res.hist[i]) \in days
          /\ res.out.forecast.ds[i] = res.hist[i]
          /\ res.out.forecast.yhat[i] =
                SumConfirmed(SelectSeq(rows, LAMBDA r : ToDatetime(r.Date) = res.hist[i]))

C8_ForecastShape ==
    (Forecasting /\ res.out.kind = "ok") =>
        LET f == res.out.forecast
            n == Len(res.hist)
        IN  /\ n >= 1
            /\ Len(f.ds) = n + res.days
            /\ Len(f.yhat) = n + res.days
            /\ Len(f.yhat_lower) = n + res.days
            /\ Len(f.yhat_upper) = n + res.days
            /\ \A i \in 1..n : f.ds[i] = res.hist[i]
            /\ \A i \in 1..(n - 1) : DayNo(res.hist[i]) < DayNo(res.hist[i + 1])
            /\ \A k \in 1..res.days : f.ds[n + k] = Calendar[DayNo(res.hist[n]) + k]

C8_Witness ==
    /\ Forecasting
    /\ res.out.kind = "ok"
    /\ res.days = MaxHorizon
    /\ Len(res.hist) >= 2
    /\ Len(res.out.forecast.ds) = Len(res.hist) + MaxHorizon

\* C9 as claimed: in every forecast returned, lower <= point <= upper at every index.
C9_BoundsOrdered ==
    (Forecasting /\ res.out.kind = "ok") =>
        \A i \in 1..Len(res.out.forecast.ds) :
            /\ res.out.forecast.yhat_lower[i] <= res.out.forecast.yhat[i]
            /\ res.out.forecast.yhat[i] <= res.out.forecast.yhat_upper[i]
ServingOps == {"predict", "get_state_predictions", "evaluate_models"}

\* C15: no predict, get_state_predictions or evaluate_models call changes the
\* engine: its scaler, its forest and its aggregate Prophet object are after the
\* call what they were before it; and predict scales every feature row with the
\* scaler parameters the engine had before the call (those of training) and
\* predicts with the forest it had.
C15_FrozenForServing ==
    /\ [][res'.op \in ServingOps =>
             /\ engines' = engines
             /\ prophets'[engines[1].prophet_model] = prophets[engines[1].prophet_model]]_vars
    /\ []((res.op = "predict" /\ res.out.kind = "ok") =>
             /\ engines[1] = res.pre
             /\ Len(res.out.rf_predictions) >= 1
             /\ \A i \in 1..Len(res.out.rf_predictions) :
                    /\ res.out.rf_predictions[i].forest = res.pre.rf_model
                    /\ res.out.rf_predictions[i].row.scaled_by = res.pre.scaler
                    /\ res.pre.scaler >= 1)

\* predict has answered on a trained engine for a date range of the data
C15_Witness ==
    /\ res.op = "predict"
    /\ res.out.kind = "ok"
    /\ res.was_completed
    /\ Len(res.df.rows) < Len(input.rows)
    /\ Len(res.out.rf_predictions) >= 1
    /\ engines[1].scaler >= 1

\* C16 as claimed: a predict call that returned, and any other predict call on the
\* same engine with the same horizon and another batch that returns, give the same
\* forecast dates, point estimates and bounds.
C16_SameForecast ==
    (res.op = "predict" /\ res.out.kind = "ok") =>
        \A df \in Observations(input), w \in Draws :
            Predict(engines[1], prophets, df, res.days, w).kind = "ok" =>
                Predict(engines[1], prophets, df, res.days, w).forecast = res.out.forecast

\* C16, amended: a predict call that returned, and any other predict call on the
\* same engine with the same horizon and another batch that returns, give the same
\* forecast dates and point estimates, over the history of the engine's aggregate
\* model and the horizon; the bounds are sampled by each call.
C16_SameDatesAndEstimates ==
    (res.op = "predict" /\ res.out.kind = "ok") =>
        /\ Len(res.out.forecast.ds) = Len(res.hist) + res.days
        /\ SubSeq(res.out.forecast.ds, 1, Len(res.hist)) = res.hist
        /\ \A df \in Observations(input), w \in Draws :
             Predict(engines[1], prophets, df, res.days, w).kind = "ok" =>
               /\ Predict(engines[1], prophets, df, res.days, w).forecast.ds
                      = res.out.forecast.ds
               /\ Predict(engines[1], prophets, df, res.days, w).forecast.yhat
                      = res.out.forecast.yhat

\* predict has answered for a date range of the data, and answers for all of the
\* data with other ensemble predictions
C16_Witness ==
    /\ res.op = "predict"
    /\ res.out.kind = "ok"
    /\ Len(res.out.forecast.ds) >= 3
    /\ \E df \in Observations(input), w \in Draws :
         /\ df /= res.df
         /\ Predict(engines[1], prophets, df, res.days, w).kind = "ok"
         /\ Predict(engines[1], prophets, df, res.days, w).rf_predictions
                /= res.out.rf_predictions

-----------------------------------------------------------------------------
(* Claims about the backend. *)

\* C3 as claimed: the engine a request has read from the shared reference is fully
\* trained for as long as the request uses it (the reference is published only
\* once training has completed).
C3_SwapByReplacement ==
    \A t \in Threads :
        threads[t].eng /= 0 => FullyTrained(engines[threads[t].eng], prophets)

GspPcs == {"gsp_new", "gsp_fit", "gsp_forecast"}

\* the Prophet objects the engines own
Owned == {engines[i].prophet_model : i \in 1..Len(engines)}

\* C4: the Prophet object of a get_state_predictions call is its own: it is none
\* of the engines' objects and not the object of another call in flight, whatever
\* the regions and the interleaving; and no step of a get_state_predictions call
\* changes an engine (scaler, forest), an engine's Prophet object, or the object of
\* another call.
C4_OwnInstance ==
    /\ [](\A t \in Threads : threads[t].inst /= 0 =>
             /\ threads[t].inst \notin Owned
             /\ \A u \in Threads \ {t} : threads[u].inst /= threads[t].inst)
    /\ [][\A t \in Threads :
             (threads[t].pc \in GspPcs /\ threads'[t] /= threads[t]) =>
                 /\ engines' = engines
                 /\ \A i \in Owned : prophets'[i] = prophets[i]
                 /\ \A u \in Threads \ {t} :
                        threads[u].inst /= 0 =>
                            prophets'[threads[u].inst] = prophets[threads[u].inst]]_vars

\* two calls for the same region are in flight on a trained engine, each with its
\* fitted object
C4_Witness ==
    \E t, u \in Threads :
        /\ t /= u
        /\ threads[t].pc = "gsp_forecast"
        /\ threads[u].pc = "gsp_forecast"
        /\ threads[t].state = threads[u].state
        /\ threads[t].eng = threads[u].eng
        /\ FullyTrained(engines[threads[t].eng], prophets)
        /\ threads[t].inst /= threads[u].inst
        /\ prophets[threads[t].inst].fitted
        /\ prophets[threads[u].inst].fitted

Failed(q) == ~q.called \/ q.out.kind = "error"

\* the response request j of the trail would have got, had the requests before it
\* back to request i + 1 been the only ones since the globals of request i
RECURSIVE Replay(_, _, _)
Replay(g, i, j) ==
    LET r == GetPredictions(g, input, trail[i].state, trail[i].days, trail[i].w)
    IN  IF i = j THEN r.resp ELSE Replay(r.g, i + 1, j)

\* C6: a request in which initialisation, fitting or predicting failed is answered
\* with an error that names the failure and holds no forecast values, and an answer
\* with forecast values is the forecast the engine returned for this request; and
\* after a failed request for a region, a later request for another target gets the
\* response it would have got without the failed request.
C6_FailureReported ==
    /\ \A i \in 1..Len(trail) :
         /\ Failed(trail[i]) =>
              /\ trail[i].resp.status = 500
              /\ trail[i].resp.error /= ""
              /\ trail[i].resp.body = NoValues
         /\ ~Failed(trail[i]) =>
              /\ trail[i].resp.status = 200
              /\ trail[i].resp.body.dates = trail[i].out.forecast.ds
              /\ trail[i].resp.body.predictions = trail[i].out.forecast.yhat
    /\ \A i, j \in 1..Len(trail) :
         (i < j /\ Failed(trail[i]) /\ trail[i].state /= ""
                /\ trail[j].state /= trail[i].state) =>
             trail[j].resp = Replay(trail[i].g, i + 1, j)

\* a request for a region without enough history has failed in the fit, and the
\* next request, for another region, has got its forecast
C6_Witness ==
    /\ Len(trail) >= 2
    /\ trail[1].called
    /\ trail[1].state /= ""
    /\ trail[1].out.err = InsufficientHistory
    /\ trail[1].resp.status = 500
    /\ trail[2].state \notin {"", trail[1].state}
    /\ trail[2].resp.status = 200
    /\ Len(trail[2].resp.body.predictions) >= 2

\* the globals request i of the trail left
After(i) == IF i < Len(trail) THEN trail[i + 1].g ELSE Now

\* C17: with the calls running one at a time, once initialize_model has returned the
\* global model is None or an engine whose training completed, all of whose parts
\* are fitted; in a request that called initialize_model, a failed data load leaves
\* the model as it was, and a training that did not complete leaves it None; and a
\* request after whose initialisation the model is None is answered with an error
\* and no forecast values, without the engine being called.
C17_NoneOrTrained ==
    /\ phase = "serving" =>
         \/ model = 0
         \/ /\ model \in 1..Len(engines)
            /\ model \in completed
            /\ FullyTrained(engines[model], prophets)
    /\ \A i \in 1..Len(trail) :
         /\ After(i).model = 0 \/ After(i).model \in After(i).completed
         /\ (trail[i].g.model = 0 /\ LoadData(trail[i].g.cache, input) = None) =>
                /\ After(i).model = trail[i].g.model
                /\ After(i).calls = trail[i].g.calls
         /\ (After(i).calls > trail[i].g.calls
               /\ Len(After(i).engines) \notin After(i).completed) =>
                After(i).model = 0
         /\ After(i).model = 0 =>
                /\ ~trail[i].called
                /\ trail[i].resp.status = 500
                /\ trail[i].resp.error /= ""
                /\ trail[i].resp.body = NoValues

\* the training started by a request has failed after the scaler was fitted: the
\* model is None and the request got an error; the next request has trained again
C17_Witness ==
    /\ Len(trail) = 2
    /\ trail[1].g.model = 0
    /\ trail[2].g.model = 0
    /\ trail[2].g.calls = 1
    /\ trail[2].g.engines[1].scaler /= 0
    /\ ~FullyTrained(trail[2].g.engines[1], trail[2].g.prophets)
    /\ trail[1].resp.status = 500
    /\ calls = 2
    /\ model = 0

====
